---- MODULE Spec2Model ----
(***************************************************************************)
(* Model of the amortization and refinance-economics core of               *)
(* src/src/mortgage_tools/app.py.                                          *)
(*                                                                         *)
(* Python floats are binary floating point numbers: every arithmetic       *)
(* operation returns the exact result rounded to the nearest representable *)
(* value, ties to even.  The model keeps that rule and shortens the        *)
(* significand from 53 bits to Prec bits, so that the rounding residues    *)
(* the code produces (a balance of 1e-13 after the last scheduled payment, *)
(* 1.0 + r == 1.0 for a tiny r) are reachable with small numbers.  A float *)
(* is the record [m, e] of value m * 2^e with m = 0 (and e = 0) or         *)
(* 2^(Prec-1) <= |m| < 2^Prec; the exponent is unbounded (no inf, no nan). *)
(***************************************************************************)
EXTENDS Integers, Sequences, FiniteSets, TLC

\* Bits of significand of the modelled float format.
Prec == 12
\* Longest planning horizon (months) and longest caller-built schedule.
MaxMonths == 3
MaxLen == 3
\* The loop's allowance of periods beyond the nominal count (line 114) and
\* the default periods_per_year (lines 23, 56, 89).
Cap == 600
PeriodsPerYear == 12

Abs(x) == IF x < 0 THEN -x ELSE x
Sgn(x) == IF x < 0 THEN -1 ELSE IF x > 0 THEN 1 ELSE 0

RECURSIVE BitLen(_)
BitLen(n) == IF n = 0 THEN 0 ELSE 1 + BitLen(n \div 2)

Zero == [m |-> 0, e |-> 0]

\* The float nearest to M * 2^E (round half to even).
Fl(M, E) ==
    IF M = 0 THEN Zero
    ELSE LET a == Abs(M)
             s == Sgn(M)
             k == BitLen(a) - Prec
         IN  IF k <= 0 THEN [m |-> s * a * 2^(-k), e |-> E + k]
             ELSE LET q    == a \div 2^k
                      rem  == a % 2^k
                      half == 2^(k-1)
                      up   == rem > half \/ (rem = half /\ q % 2 = 1)
                      q2   == IF up THEN q + 1 ELSE q
                  IN  IF q2 = 2^Prec
                      THEN [m |-> s * 2^(Prec-1), e |-> E + k + 1]
                      ELSE [m |-> s * q2, e |-> E + k]

FromInt(i) == Fl(i, 0)
One == FromInt(1)

FNeg(a) == [m |-> -a.m, e |-> a.e]
FAbs(a) == [m |-> Abs(a.m), e |-> a.e]

FAdd(a, b) ==
    IF a.m = 0 THEN b
    ELSE IF b.m = 0 THEN a
    ELSE LET hi == IF a.e >= b.e THEN a ELSE b
             lo == IF a.e >= b.e THEN b ELSE a
             d  == hi.e - lo.e
         IN  IF d > Prec + 1 THEN hi
             ELSE Fl(hi.m * 2^d + lo.m, lo.e)

FSub(a, b) == FAdd(a, FNeg(b))

FMul(a, b) == Fl(a.m * b.m, a.e + b.e)

\* a / b for b # 0; the quotient carries two guard bits and a sticky bit.
FDiv(a, b) ==
    IF a.m = 0 THEN Zero
    ELSE LET num == Abs(a.m) * 2^(Prec + 2)
             q   == num \div Abs(b.m)
             rem == num % Abs(b.m)
             qs  == IF rem # 0 /\ q % 2 = 0 THEN q + 1 ELSE q
         IN  Fl(Sgn(a.m) * Sgn(b.m) * qs, a.e - b.e - (Prec + 2))

\* A literal num/den of the source text, as the float nearest to it.
Lit(num, den) == FDiv(FromInt(num), FromInt(den))

FLt(a, b) == FSub(a, b).m < 0
FLe(a, b) == FSub(a, b).m <= 0
FGt(a, b) == FLt(b, a)
FGe(a, b) == FLe(b, a)

\* Python's min(a, b) and max(a, b): the first argument unless the second
\* is strictly smaller (larger).
FMin(a, b) == IF FLt(b, a) THEN b ELSE a
FMax(a, b) == IF FGt(b, a) THEN b ELSE a

IsIntegral(a) == a.m = 0 \/ a.e >= 0 \/ a.m % 2^(-a.e) = 0
ToInt(a) == IF a.e >= 0 THEN a.m * 2^a.e ELSE a.m \div 2^(-a.e)

\* Python's round(x) of a float x >= 0: nearest integer, ties to even.
PyRound(a) ==
    IF a.e >= 0 THEN a.m * 2^a.e
    ELSE IF -a.e > Prec THEN 0
    ELSE LET k    == -a.e
             q    == a.m \div 2^k
             rem  == a.m % 2^k
             half == 2^(k-1)
         IN  IF rem > half \/ (rem = half /\ q % 2 = 1) THEN q + 1 ELSE q

\* x ** k for an integral k: pow, taken as repeated rounded multiplication
\* (and one rounded division for k < 0).
RECURSIVE FPowN(_, _)
FPowN(x, k) ==
    IF k = 0 THEN One
    ELSE LET p == FPowN(x, k - 1)
         IN  IF p.m = 0 THEN Zero ELSE FMul(p, x)
FPow(x, k) == IF k >= 0 THEN FPowN(x, k) ELSE FDiv(One, FPowN(x, -k))

RelTol == Lit(1, 1000000000)
\* math.isclose(a, b) with its defaults rel_tol = 1e-09, abs_tol = 0.0.
isclose(a, b) ==
    \/ a = b
    \/ FLe(FAbs(FSub(a, b)), FMul(RelTol, FMax(FAbs(a), FAbs(b))))

(***************************************************************************)
(* Core math (app.py 18-184).                                              *)
(***************************************************************************)
\* r = (annual_rate_pct / 100.0) / periods_per_year
rate_per_period(annual_rate_pct, periods_per_year) ==
    FDiv(FDiv(annual_rate_pct, FromInt(100)), FromInt(periods_per_year))

\* n = years * periods_per_year
nper(years, periods_per_year) == FMul(years, FromInt(periods_per_year))

\* 1.0 - (1.0 + r) ** (-n), for an integral n
annuity_denominator(r, n) == FSub(One, FPow(FAdd(One, r), -ToInt(n)))

\* payment() ends in ZeroDivisionError when the closed form's denominator
\* is 0.0.
payment_raises(principal, annual_rate_pct, years, periods_per_year) ==
    LET n == nper(years, periods_per_year)
        r == rate_per_period(annual_rate_pct, periods_per_year)
    IN  /\ n # Zero
        /\ ~isclose(r, Zero)
        /\ annuity_denominator(r, n) = Zero

payment(principal, annual_rate_pct, years, periods_per_year) ==
    LET n == nper(years, periods_per_year)
        r == rate_per_period(annual_rate_pct, periods_per_year)
    IN  IF n = Zero THEN principal
        ELSE IF isclose(r, Zero) THEN FDiv(principal, n)
        ELSE FDiv(FMul(r, principal), annuity_denominator(r, n))

remaining_balance(original_principal, annual_rate_pct, years_total, payments_made, periods_per_year) ==
    LET r   == rate_per_period(annual_rate_pct, periods_per_year)
        pmt == payment(original_principal, annual_rate_pct,
                       FromInt(years_total), periods_per_year)
        g   == FPow(FAdd(One, r), payments_made)
    IN  IF isclose(r, Zero)
        THEN FSub(original_principal, FMul(pmt, FromInt(payments_made)))
        ELSE FSub(FMul(original_principal, g),
                  FMul(pmt, FDiv(FSub(g, One), r)))

Columns ==
    {"period", "interest", "principal", "extra_principal", "payment", "balance"}

\* pd.DataFrame(rows) of a list of dicts: no rows, no columns.
DataFrame(rws) == [cols |-> IF rws = <<>> THEN {} ELSE Columns, rows |-> rws]

\* The sum of the interest column over rows lo..hi, added pairwise (the
\* order of numpy's sum over a float column).
RECURSIVE SumInterestRange(_, _, _)
SumInterestRange(rws, lo, hi) ==
    IF lo > hi THEN Zero
    ELSE IF lo = hi THEN rws[lo].interest
    ELSE LET mid == (lo + hi) \div 2
         IN  FAdd(SumInterestRange(rws, lo, mid), SumInterestRange(rws, mid + 1, hi))
SumInterest(rws) == SumInterestRange(rws, 1, Len(rws))

NoError == ""
Returned(v) == [raised |-> NoError, out |-> v]
Raised(x) == [raised |-> x, out |-> Zero]

\* float(df["interest"].sum())
total_interest_from_schedule(d) ==
    IF "interest" \notin d.cols THEN Raised("KeyError")
    ELSE Returned(SumInterest(d.rows))

None == [none |-> TRUE, val |-> Zero]
Some(v) == [none |-> FALSE, val |-> v]

\* Variant: no savings reported as a break-even of 0 months.
break_even_months_zero(total_costs, monthly_savings) ==
    IF FLe(monthly_savings, Zero) THEN Some(Zero)
    ELSE Some(FDiv(total_costs, monthly_savings))

break_even_months(total_costs, monthly_savings) ==
    IF FLe(monthly_savings, Zero) THEN None
    ELSE Some(FDiv(total_costs, monthly_savings))

(***************************************************************************)
(* Helper functions (app.py 214-276).                                      *)
(***************************************************************************)
\* Variant: the points component is not floored at 0.
effective_refi_costs_nofloor(offer) ==
    LET points_cost ==
            FMul(FDiv(offer.points_pct_of_loan, FromInt(100)), offer.new_principal)
    IN  FAdd(FSub(points_cost, offer.lender_credits), offer.other_closing_costs)

effective_refi_costs(offer) ==
    LET points_cost ==
            FMul(FDiv(offer.points_pct_of_loan, FromInt(100)), offer.new_principal)
    IN  FAdd(FMax(FSub(points_cost, offer.lender_credits), Zero),
             offer.other_closing_costs)

Min(a, b) == IF a <= b THEN a ELSE b
Max(a, b) == IF a >= b THEN a ELSE b

\* DataFrame.head(n): the first n rows, or all but the last -n rows for n < 0.
head(d, n) ==
    [cols |-> d.cols,
     rows |-> SubSeq(d.rows, 1,
                     IF n >= 0 THEN Min(n, Len(d.rows)) ELSE Max(Len(d.rows) + n, 0))]

\* Lines 258-264 (266-272): a schedule shorter than the horizon is extended
\* with rows of 0.0 in each of its own columns.
pad(d, months) ==
    IF Len(d.rows) < months
    THEN [cols |-> d.cols,
          rows |-> d.rows \o [i \in 1..(months - Len(d.rows)) |->
                                [c \in d.cols |-> Zero]]]
    ELSE d

\* d["payment"].to_numpy() + pmi
payment_plus(d, pmi) == [i \in 1..Len(d.rows) |-> FAdd(d.rows[i].payment, pmi)]

\* numpy's a - b of two one-dimensional arrays: equal lengths, or one of
\* them of length 1 and broadcast; anything else is a ValueError.
np_broadcasts(a, b) == Len(a) = Len(b) \/ Len(a) = 1 \/ Len(b) = 1
np_subtract(a, b) ==
    LET n == IF Len(a) = Len(b) THEN Len(a) ELSE IF Len(a) = 1 THEN Len(b) ELSE Len(a)
    IN  [i \in 1..n |-> FSub(IF Len(a) = n THEN a[i] ELSE a[1],
                             IF Len(b) = n THEN b[i] ELSE b[1])]

build_savings_stream(cur_sched, new_sched, months, cur_pmi, new_pmi) ==
    LET cur == pad(head(cur_sched, months), months)
        new == pad(head(new_sched, months), months)
    IN  IF "payment" \notin cur.cols \/ "payment" \notin new.cols
        THEN Raised("KeyError")
        ELSE LET cur_total == payment_plus(cur, cur_pmi)
                 new_total == payment_plus(new, new_pmi)
             IN  IF np_broadcasts(cur_total, new_total)
                 THEN Returned(np_subtract(cur_total, new_total))
                 ELSE Raised("ValueError")

(***************************************************************************)
(* Inputs.                                                                 *)
(***************************************************************************)
Principals == {FromInt(0), FromInt(60), FromInt(100)}
\* Annual rates in percent: 0, an everyday rate, rates whose per-period rate
\* is 0.5, 1 and 2, and a rate so small that 1.0 + r == 1.0.
Rates == {FromInt(0), FromInt(6), FromInt(600), FromInt(1200), FromInt(2400),
          Lit(1, 1000)}
\* Terms in years: 0, 1.5, 3, 6 and 12 monthly periods.
Terms == {FromInt(0), Lit(1, 8), Lit(1, 4), Lit(1, 2), FromInt(1)}
\* An annual rate in percent whose per-period rate is positive and below
\* 1e-9.
TinyRates == {Lit(1, 1000000)}
Extras == {FromInt(0), FromInt(42), FromInt(47)}
TermsInt == {1, 2}
PaymentsMade == {0, 6, 12, 24}
Amounts == {FromInt(0), FromInt(200), FromInt(5000), FromInt(-100)}
Offers ==
    [new_principal : {FromInt(0), FromInt(3800)},
     points_pct_of_loan : {FromInt(0), Lit(1, 2)},
     lender_credits : {FromInt(0), FromInt(5), FromInt(500)},
     other_closing_costs : {FromInt(0), FromInt(2000)}]
\* Schedules as the callers of build_savings_stream in tests/test_app.py
\* build them: pd.DataFrame({"payment": [v] * k}).
TestSchedules ==
    {[cols |-> {"payment"}, rows |-> [i \in 1..k |-> [payment |-> FromInt(800)]]] :
        k \in 0..MaxLen}
Months == (-MaxMonths)..MaxMonths
Pmis == {FromInt(0), FromInt(50)}

\* pow is modelled for integral exponents: a call is in the model when the
\* closed form is not evaluated or its exponent n is integral.
Modelled(annual_rate_pct, yrs) ==
    LET n == nper(yrs, PeriodsPerYear)
        rr == rate_per_period(annual_rate_pct, PeriodsPerYear)
    IN  n = Zero \/ isclose(rr, Zero) \/ IsIntegral(n)

(***************************************************************************)
(* State: the position, arguments and locals of a call of                  *)
(* amortization_schedule, the DataFrame it returned, the DataFrame of the  *)
(* call before it, and the outcome of the last call of another function.   *)
(***************************************************************************)
VARIABLES pc, principal, annual_rate_pct, years, extra_principal_per_period,
          r, base_pmt, balance, rows, period, max_periods, df, prev, res

vars == <<pc, principal, annual_rate_pct, years, extra_principal_per_period,
          r, base_pmt, balance, rows, period, max_periods, df, prev, res>>

args == <<principal, annual_rate_pct, years, extra_principal_per_period>>
locals == <<r, base_pmt, balance, rows, period, max_periods>>

NoCall == [op |-> "", args |-> <<>>, raised |-> NoError, out |-> Zero]
NoPrev == [none |-> TRUE, extra |-> Zero, df |-> DataFrame(<<>>)]

Init ==
    /\ pc = "idle"
    /\ principal = Zero /\ annual_rate_pct = Zero /\ years = Zero
    /\ extra_principal_per_period = Zero
    /\ r = Zero /\ base_pmt = Zero /\ balance = Zero
    /\ rows = <<>> /\ period = 0 /\ max_periods = 0
    /\ df = DataFrame(<<>>)
    /\ prev = NoPrev
    /\ res = NoCall

\* Lines 105-112: the statements before the loop.
Enter(p, rate, yrs, extra) ==
    /\ principal' = p /\ annual_rate_pct' = rate /\ years' = yrs
    /\ extra_principal_per_period' = extra
    /\ r' = rate_per_period(rate, PeriodsPerYear)
    /\ IF payment_raises(p, rate, yrs, PeriodsPerYear)
       THEN /\ pc' = "raised"
            /\ UNCHANGED <<base_pmt, balance, rows, period, max_periods>>
       ELSE /\ pc' = "loop"
            /\ base_pmt' = payment(p, rate, yrs, PeriodsPerYear)
            /\ balance' = p
            /\ rows' = <<>>
            /\ period' = 0
            /\ max_periods' = PyRound(nper(yrs, PeriodsPerYear))

amortization_schedule_call(p, rate, yrs, extra) ==
    /\ pc = "idle"
    /\ Modelled(rate, yrs)
    /\ Enter(p, rate, yrs, extra)
    /\ UNCHANGED <<df, prev, res>>

\* Line 114; the variant has no cap on the period.
loop_condition_nocap == FGt(balance, Zero)
loop_condition == FGt(balance, Zero) /\ period < max_periods + Cap

\* Line 118.
extra_applied(extra_per_period, bal, principal_component) ==
    FMin(extra_per_period, FMax(FSub(bal, principal_component), Zero))

\* Line 119; the variant takes max for min.
principal_paid_max(principal_component, extra, bal) ==
    FMax(FAdd(principal_component, extra), bal)
principal_paid(principal_component, extra, bal) ==
    FMin(FAdd(principal_component, extra), bal)

\* Line 121.
balance_after(bal, principal_pay) == FMax(FSub(bal, principal_pay), Zero)

\* Lines 115-133: one iteration; the break at line 133 runs into lines
\* 135-136.
loop_body ==
    /\ pc = "loop"
    /\ loop_condition
    /\ LET interest            == FMul(balance, r)
           principal_component == FSub(base_pmt, interest)
           extra               == extra_applied(extra_principal_per_period,
                                                balance, principal_component)
           principal_pay       == principal_paid(principal_component, extra, balance)
           total_payment       == FAdd(interest, principal_pay)
           new_balance         == balance_after(balance, principal_pay)
           row == [period          |-> period + 1,
                   interest        |-> interest,
                   principal       |-> principal_component,
                   extra_principal |-> extra,
                   payment         |-> total_payment,
                   balance         |-> new_balance]
       IN  /\ period' = period + 1
           /\ balance' = new_balance
           /\ rows' = Append(rows, row)
           /\ IF FLe(new_balance, Zero)
              THEN pc' = "returned" /\ df' = DataFrame(Append(rows, row))
              ELSE pc' = "loop" /\ df' = df
    /\ UNCHANGED <<args, r, base_pmt, max_periods, prev, res>>

\* Lines 114, 135-136: the loop condition fails.
loop_exit ==
    /\ pc = "loop"
    /\ ~loop_condition
    /\ pc' = "returned"
    /\ df' = DataFrame(rows)
    /\ UNCHANGED <<args, locals, prev, res>>

\* The caller keeps the schedule and asks for the schedule of the same loan
\* with at least as much extra principal (tests/test_app.py 109-121).
amortization_schedule_again(extra) ==
    /\ pc = "returned"
    /\ prev.none
    /\ FLe(extra_principal_per_period, extra)
    /\ prev' = [none |-> FALSE, extra |-> extra_principal_per_period, df |-> df]
    /\ Enter(principal, annual_rate_pct, years, extra)
    /\ UNCHANGED <<df, res>>

Outcome(op, a, o) == [op |-> op, args |-> a, raised |-> o.raised, out |-> o.out]

total_interest_call ==
    /\ pc = "returned"
    /\ pc' = "called"
    /\ res' = Outcome("total_interest_from_schedule", <<df>>,
                      total_interest_from_schedule(df))
    /\ UNCHANGED <<args, locals, df, prev>>

build_savings_stream_call(new_sched, months, cur_pmi, new_pmi) ==
    /\ pc = "returned"
    /\ prev.none
    /\ pc' = "called"
    /\ res' = Outcome("build_savings_stream",
                      <<df, new_sched, months, cur_pmi, new_pmi>>,
                      build_savings_stream(df, new_sched, months, cur_pmi, new_pmi))
    /\ UNCHANGED <<args, locals, df, prev>>

remaining_balance_call(p, rate, yrs, k) ==
    /\ pc = "idle"
    /\ pc' = "called"
    /\ res' = Outcome("remaining_balance", <<p, rate, yrs, k>>,
                      IF payment_raises(p, rate, FromInt(yrs), PeriodsPerYear)
                      THEN Raised("ZeroDivisionError")
                      ELSE Returned(remaining_balance(p, rate, yrs, k, PeriodsPerYear)))
    /\ UNCHANGED <<args, locals, df, prev>>

break_even_months_call(total_costs, monthly_savings) ==
    /\ pc = "idle"
    /\ pc' = "called"
    /\ res' = Outcome("break_even_months", <<total_costs, monthly_savings>>,
                      Returned(break_even_months(total_costs, monthly_savings)))
    /\ UNCHANGED <<args, locals, df, prev>>

effective_refi_costs_call(offer) ==
    /\ pc = "idle"
    /\ pc' = "called"
    /\ res' = Outcome("effective_refi_costs", <<offer>>,
                      Returned(effective_refi_costs(offer)))
    /\ UNCHANGED <<args, locals, df, prev>>

payment_call(p, rate, yrs) ==
    /\ pc = "idle"
    /\ Modelled(rate, yrs)
    /\ pc' = "called"
    /\ res' = Outcome("payment", <<p, rate, yrs>>,
                      IF payment_raises(p, rate, yrs, PeriodsPerYear)
                      THEN Raised("ZeroDivisionError")
                      ELSE Returned(payment(p, rate, yrs, PeriodsPerYear)))
    /\ UNCHANGED <<args, locals, df, prev>>

\* Lines 355-374: the application's current loan from "now" forward, the
\* schedule of the remaining balance over the remaining term.
cur_sched_call(p, rate, yrs, k) ==
    /\ pc = "idle"
    /\ k <= yrs * PeriodsPerYear
    /\ LET remaining_term_years ==
               FDiv(FromInt(yrs * 12 - k), FromInt(12))
       IN  /\ Modelled(rate, remaining_term_years)
           /\ IF payment_raises(p, rate, FromInt(yrs), PeriodsPerYear)
              THEN /\ pc' = "raised"
                   /\ res' = Outcome("remaining_principal", <<p, rate, yrs, k>>,
                                     Raised("ZeroDivisionError"))
                   /\ UNCHANGED <<args, locals>>
              ELSE LET remaining_principal ==
                           remaining_balance(p, rate, yrs, k, PeriodsPerYear)
                   IN  /\ res' = Outcome("remaining_principal", <<p, rate, yrs, k>>,
                                         Returned(remaining_principal))
                       /\ Enter(remaining_principal, rate, remaining_term_years, Zero)
    /\ UNCHANGED <<df, prev>>

Next ==
    \/ \E p \in Principals, rate \in Rates, yrs \in Terms, extra \in Extras :
          amortization_schedule_call(p, rate, yrs, extra)
    \/ loop_body
    \/ loop_exit
    \/ \E extra \in Extras : amortization_schedule_again(extra)
    \/ total_interest_call
    \/ \E new_sched \in TestSchedules, months \in Months, cur_pmi \in Pmis :
          build_savings_stream_call(new_sched, months, cur_pmi, FromInt(25))
    \/ \E p \in Principals \ {Zero}, rate \in Rates, yrs \in TermsInt, k \in PaymentsMade :
          remaining_balance_call(p, rate, yrs, k)
    \/ \E total_costs \in Amounts, monthly_savings \in Amounts :
          break_even_months_call(total_costs, monthly_savings)
    \/ \E offer \in Offers : effective_refi_costs_call(offer)
    \/ \E p \in Principals, rate \in Rates \cup TinyRates, yrs \in Terms :
          payment_call(p, rate, yrs)
    \/ \E p \in Principals \ {Zero}, rate \in Rates, yrs \in TermsInt, k \in PaymentsMade :
          cur_sched_call(p, rate, yrs, k)

Spec == Init /\ [][Next]_vars

(***************************************************************************)
(* Properties.                                                             *)
(***************************************************************************)
Dollar == FromInt(1)
LastRow(d) == d.rows[Len(d.rows)]
NominalPeriods == nper(years, PeriodsPerYear)

\* C1: for principal > 0, rate >= 0, term Y > 0 (Y * 12 a whole number of
\* periods) and no extra principal, the returned schedule has exactly Y * 12
\* rows, its last balance is 0 within $1, and no earlier row has balance 0.
C1_NominalRowCount ==
    (/\ pc = "returned"
     /\ FGt(principal, Zero) /\ FGe(annual_rate_pct, Zero) /\ FGt(years, Zero)
     /\ extra_principal_per_period = Zero
     /\ IsIntegral(NominalPeriods))
    => /\ Len(df.rows) = ToInt(NominalPeriods)
       /\ FLe(LastRow(df).balance, Dollar)
       /\ \A i \in 1..(Len(df.rows) - 1) : df.rows[i].balance # Zero

\* C2: for the same principal > 0, rate >= 0 and term > 0, the schedule with
\* the larger extra principal has no more rows and no more total interest
\* than the schedule with the smaller one.
C2_MonotoneInExtra ==
    (/\ pc = "returned" /\ ~prev.none
     /\ FGt(principal, Zero) /\ FGe(annual_rate_pct, Zero) /\ FGt(years, Zero)
     /\ FLe(prev.extra, extra_principal_per_period))
    => /\ Len(df.rows) <= Len(prev.df.rows)
       /\ FLe(SumInterest(df.rows), SumInterest(prev.df.rows))

\* The payment of month i of a schedule, 0.0 beyond the schedule's length.
PaymentOrZero(d, i) == IF i <= Len(d.rows) THEN d.rows[i].payment ELSE Zero

\* C3: for months >= 0 and schedules of any lengths build_savings_stream
\* returns exactly `months` entries, entry i being
\* (cur_payment[i] + cur_pmi) - (new_payment[i] + new_pmi) with a payment of
\* 0 beyond a schedule's length; for months = 0 the stream is empty.
C3_SavingsStream ==
    (res.op = "build_savings_stream" /\ res.args[3] >= 0)
    => LET cur == res.args[1]
           new == res.args[2]
           months == res.args[3]
       IN  /\ res.raised = NoError
           /\ Len(res.out) = months
           /\ \A i \in 1..months :
                res.out[i] = FSub(FAdd(PaymentOrZero(cur, i), res.args[4]),
                                  FAdd(PaymentOrZero(new, i), res.args[5]))

\* C4: build_savings_stream with months < 0 never returns a savings stream.
C4_NegativeMonthsRejected ==
    (res.op = "build_savings_stream" /\ res.args[3] < 0) => res.raised # NoError

\* C5: total_interest_from_schedule returns the sum of the interest field
\* over the rows of every schedule amortization_schedule returns, and 0 for
\* the schedule without rows.
C5_TotalInterest ==
    res.op = "total_interest_from_schedule"
    => /\ res.raised = NoError
       /\ res.out = SumInterest(res.args[1].rows)
       /\ (res.args[1].rows = <<>> => res.out = Zero)

\* C6: break_even_months returns None exactly when monthly_savings <= 0 and
\* total_costs / monthly_savings otherwise; None is not the result 0, which
\* is what total_costs = 0 with positive savings gives.
C6_BreakEven ==
    res.op = "break_even_months"
    => LET total_costs == res.args[1]
           monthly_savings == res.args[2]
       IN  /\ res.raised = NoError
           /\ res.out.none <=> FLe(monthly_savings, Zero)
           /\ FGt(monthly_savings, Zero)
                => res.out = Some(FDiv(total_costs, monthly_savings))
           /\ (total_costs = Zero /\ FGt(monthly_savings, Zero))
                => (res.out = Some(Zero) /\ res.out # None)

C6_Witness ==
    /\ res.op = "break_even_months"
    /\ res.args = <<FromInt(5000), FromInt(200)>>
    /\ res.out = Some(FromInt(25))

C8_RemainingBalanceEnds ==
    res.op = "remaining_balance"
    => LET p == res.args[1]
           yrs == res.args[3]
           k == res.args[4]
       IN  /\ k = 0 => (res.raised = NoError /\ res.out = p)
           /\ k = yrs * PeriodsPerYear
                => (res.raised = NoError /\ FLe(FAbs(res.out), Dollar))

\* The balance before row i of the returned schedule.
BalanceBefore(i) == IF i = 1 THEN principal ELSE df.rows[i - 1].balance

ScheduleReturned ==
    /\ pc = "returned"
    /\ FGt(principal, Zero) /\ FGe(annual_rate_pct, Zero) /\ FGe(years, Zero)
    /\ FGe(extra_principal_per_period, Zero)

RowsWellFormed ==
    /\ \A i \in 1..Len(df.rows) :
          /\ df.rows[i].period = i
          /\ df.rows[i].balance =
                LET d == FSub(BalanceBefore(i),
                              FAdd(df.rows[i].principal, df.rows[i].extra_principal))
                IN  IF FGt(d, Zero) THEN d ELSE Zero
          /\ FGe(df.rows[i].balance, Zero)
    /\ \A i \in 1..(Len(df.rows) - 1) : df.rows[i].balance # Zero

BalanceNonIncreasing ==
    \A i \in 1..Len(df.rows) : FLe(df.rows[i].balance, BalanceBefore(i))

\* C9 as stated: every schedule returned for principal > 0, rate >= 0,
\* term >= 0, extra >= 0 has periods 1..K without gaps, each balance equal
\* to max(previous balance - (principal + extra_principal), 0), balances
\* non-increasing and never negative, and balance 0 in the last row only.
C9_AsStated == ScheduleReturned => (RowsWellFormed /\ BalanceNonIncreasing)

\* C9, amended: as stated, the balances being non-increasing for a term > 0,
\* and for a term of 0 when the per-period rate is at most 1.
C9_ScheduleInvariant ==
    ScheduleReturned
    => /\ RowsWellFormed
       /\ (FGt(years, Zero) \/ FLe(r, One)) => BalanceNonIncreasing

\* A schedule of several rows paid off early by extra principal, the extra
\* of its last row cut to what was left.
C9_Witness ==
    /\ ScheduleReturned
    /\ FGt(years, Zero)
    /\ FGt(extra_principal_per_period, Zero)
    /\ Len(df.rows) >= 2
    /\ LastRow(df).balance = Zero
    /\ FLt(LastRow(df).extra_principal, extra_principal_per_period)
    /\ FLt(df.rows[1].balance, principal)

\* C10: the loop emits at most round(years * periods_per_year) + 600 rows,
\* one per iteration; on return the last balance is 0 or the row count is
\* that cap.
C10_Terminates ==
    /\ Len(rows) <= PyRound(NominalPeriods) + Cap
    /\ pc = "loop" => period = Len(rows)
    /\ (pc = "returned" /\ df.rows # <<>>)
          => \/ LastRow(df).balance = Zero
             \/ Len(df.rows) = PyRound(NominalPeriods) + Cap

\* A schedule that ran into the cap of a term of 12 periods with its balance
\* still owed.
C10_Witness ==
    /\ pc = "returned"
    /\ max_periods > 0
    /\ Len(df.rows) = max_periods + Cap
    /\ LastRow(df).balance # Zero

\* The tolerance the zero-rate case is described with.
AbsTol == Lit(1, 1000000000)

\* The value of r * principal / (1 - (1 + r)^(-n)) as an expression.
ClosedForm(p, rr, n) ==
    IF annuity_denominator(rr, n) = Zero THEN Raised("ZeroDivisionError")
    ELSE Returned(FDiv(FMul(rr, p), annuity_denominator(rr, n)))

\* C11: for principal >= 0, years >= 0, payment returns principal when
\* n = years * periods_per_year is 0; otherwise principal / n when the
\* per-period rate r has |r| <= 1e-9 (tiny nonzero rates included);
\* otherwise r * principal / (1 - (1 + r)^(-n)).
C11_PaymentCases ==
    res.op = "payment"
    => LET p    == res.args[1]
           n    == nper(res.args[3], PeriodsPerYear)
           rr   == rate_per_period(res.args[2], PeriodsPerYear)
           want == IF n = Zero THEN Returned(p)
                   ELSE IF FLe(FAbs(rr), AbsTol) THEN Returned(FDiv(p, n))
                   ELSE ClosedForm(p, rr, n)
       IN  res.raised = want.raised /\ res.out = want.out

\* Row k of the schedule of a whole term has the balance the closed form
\* gives after k payments.
ProjectorAgrees ==
    (/\ pc = "returned"
     /\ FGt(principal, Zero) /\ FGe(annual_rate_pct, Zero)
     /\ FGt(years, Zero) /\ IsIntegral(years)
     /\ extra_principal_per_period = Zero)
    => \A k \in 1..(ToInt(years) * PeriodsPerYear) :
          /\ k <= Len(df.rows)
          /\ remaining_balance(principal, annual_rate_pct, ToInt(years), k,
                               PeriodsPerYear) = df.rows[k].balance

\* The schedule built from the balance remaining after k payments has
\* Y * 12 - k rows.
RemainingRowCount ==
    (/\ pc = "returned"
     /\ res.op = "remaining_principal"
     /\ prev.none
     /\ FGe(res.args[2], Zero)
     /\ res.args[4] >= 1)
    => Len(df.rows) = res.args[3] * PeriodsPerYear - res.args[4]

\* C12: for principal P > 0, rate >= 0, a whole term Y > 0 and
\* 1 <= k <= Y * 12, remaining_balance(P, rate, Y, k) equals the balance of
\* row k of amortization_schedule(P, rate, Y) without extra principal, and
\* the schedule the application builds from the remaining balance over the
\* remaining term (Y * 12 - k) / 12 has exactly Y * 12 - k rows.
C12_ProjectorMatchesSchedule == ProjectorAgrees /\ RemainingRowCount

====
